---------------------------- MODULE Spec2Model ----------------------------
(***************************************************************************)
(* koolstof: the VINDTA logfile parser (read_logfile), the dbs/logfile     *)
(* matcher (logfile2dbs), the blank extractor (get_blanks) and the LI-COR  *)
(* segmenter (get_licor_samples).                                          *)
(*                                                                         *)
(* Python indices are kept 0-based: At(s, i) is s[i].  A string is a       *)
(* sequence of tokens, so '' is << >> and 'other_{}'.format(n) is          *)
(* <<"other_", n>>.  A float read from digits is the natural it denotes.   *)
(***************************************************************************)
EXTENDS Integers, Sequences, FiniteSets, TLC

VARIABLES
    logf,       \* read_logfile: the lines of the file, f.read().splitlines()
    logdf,      \* read_logfile: what the call gave (not run / a table / an exception)
    dbs,        \* the dbs table: rows of (bottle, analysisdate)
    logfile,    \* the logfile table handed to logfile2dbs and get_blanks
    dbs_iloc,   \* logfile2dbs: the logfile_iloc column it gave, or its exception
    blanks,     \* get_blanks: the blank_here column it gave, or its exception
    usefrom,    \* get_blanks: the cutoff it was called with
    licor,      \* get_licor_samples: the datenum column of the LI-COR table
    dbs_datenum,\* get_licor_samples: the datenum column of the dbs table
    samples     \* get_licor_samples: the rows it returned, (position, dbs_ix)

logvars == <<logf, logdf>>
dbsvars == <<dbs, logfile, dbs_iloc, blanks, usefrom>>
licorvars == <<licor, dbs_datenum, samples>>
vars == <<logvars, dbsvars, licorvars>>

----------------------------------------------------------------------------
(* Bounds of the model. *)

\* lines of a logfile, and run-start lines among them
MaxLines == 10
MaxRuns == 2
\* rows of the dbs table and runs of the logfile table given to logfile2dbs
MaxDbs == 2
MaxLog == 2
\* rows of each table given to get_licor_samples, and their largest datenum
MaxLicor == 3

----------------------------------------------------------------------------
(* Python helpers. *)

At(s, i) == s[i + 1]

NotRun == [kind |-> "notrun"]

Raise(exc, at) == [kind |-> "error", exc |-> exc, at |-> at]

\* get_blanks(dbs, logfile, usefrom=6)
usefrom_default == 6

(* No file read, no table built, no function called. *)
Idle ==
    /\ logf = << >>
    /\ logdf = NotRun
    /\ dbs = << >>
    /\ logfile = << >>
    /\ dbs_iloc = NotRun
    /\ blanks = NotRun
    /\ usefrom = usefrom_default
    /\ licor = << >>
    /\ dbs_datenum = << >>
    /\ samples = NotRun

Init == Idle

----------------------------------------------------------------------------
(* The lines of a logfile.  A line is known by what the five regular       *)
(* expressions of read_logfile and the comparison with 'other' can tell    *)
(* of it: k is its form, name the text between its first two tabs, ts the  *)
(* minute its 'started MM/DD/YY  HH:MM' denotes (NoDate when the line      *)
(* holds no such text), inc the digits of its first three fields (Empty:   *)
(* no digit), pad whether whitespace surrounds it.                         *)

NoDate == 0
Empty == -1
STD1 == <<"STD1">>
BATCH9 == <<"BATCH9">>

Line(k, name, ts, inc, pad) ==
    [k |-> k, name |-> name, ts |-> ts, inc |-> inc, pad |-> pad]

\* '3C standard.mth run started 01/02/19  10:30'
StartLine(ts) == Line("start", << >>, ts, << >>, FALSE)
\* 'bottle\t<name>\t...'
BottleLine(name) == Line("bottle", name, NoDate, << >>, FALSE)
\* '\t<name>\t...': the literal bottle is optional
TabLine(name) == Line("tab", name, NoDate, << >>, FALSE)
\* 'CRM\t<name>\t...'
CrmLine(name) == Line("crm", name, NoDate, << >>, FALSE)
\* 'other', and ' other'
OtherLine(pad) == Line("other", << >>, NoDate, << >>, pad)
\* '<minutes>\t<counts>\t<increments>\t<x>'
IncLine(inc, pad) == Line("inc", << >>, NoDate, inc, pad)
\* a banner, a header, a blank line
TextLine == Line("text", << >>, NoDate, << >>, FALSE)

StartLines == {StartLine(1), StartLine(NoDate)}

NameLines ==
    {BottleLine(STD1), BottleLine(<< >>), TabLine(STD1),
     CrmLine(BATCH9), CrmLine(<< >>), OtherLine(FALSE), OtherLine(TRUE)}

IncLines ==
    {IncLine(<<2, 7, 3>>, FALSE), IncLine(<<4, 9, 2>>, TRUE),
     IncLine(<<6, Empty, 1>>, FALSE)}

----------------------------------------------------------------------------
(* read_logfile *)

Method == "3C standard"

\* str.strip()
strip(line) == [line EXCEPT !.pad = FALSE]

\* re_method.match(line)
re_method(line) == line.k = "start" /\ ~line.pad

\* re_datetime.findall(line)
re_datetime(line) == IF line.ts # NoDate THEN <<line.ts>> ELSE << >>

\* re_bottle.match(line): (bottle)?\t([^\t]*)\t
re_bottle(line) == line.k \in {"bottle", "tab"} /\ ~line.pad

\* re_crm.match(line): CRM\t([^\t]*)\t
re_crm(line) == line.k = "crm" /\ ~line.pad

\* re_increments.match(line): (\d*)\t(\d*)\t(\d*)\t
re_increments(line) == line.k = "inc" /\ ~line.pad

\* line == 'other'
is_other(line) == line.k = "other" /\ ~line.pad

\* float(s): ValueError on ''
CanFloat(s) == s # Empty

\* a Python value of lines 63-70: a str, or the int 0 that lbot starts as
Str(s) == [isstr |-> TRUE, val |-> s]

NoBottle == [isstr |-> FALSE, val |-> << >>]

\* lbot with a final else that labels the run as 'other' does
lbot_guess(logf_, i) ==
    LET l == At(logf_, i + 1)
    IN  IF re_bottle(l) THEN Str(l.name)
        ELSE IF re_crm(l) THEN Str(l.name)
        ELSE Str(<<"other_", i + 1>>)

\* lbot of lines 63-69
lbot(logf_, i) ==
    LET l == At(logf_, i + 1)
    IN  IF re_bottle(l) THEN Str(l.name)
        ELSE IF re_crm(l) THEN Str(l.name)
        ELSE IF is_other(l) THEN Str(<<"other_", i + 1>>)
        ELSE NoBottle

\* the seeded table of line 74
jdict0 == << <<0, 0, 0>> >>

\* the while loop of lines 75-81 from offset j with the table jd so far:
\* the final (j, table), or the exception
RECURSIVE coulometer(_, _, _, _)
coulometer(logf_, i, j, jd) ==
    IF i + j >= Len(logf_) THEN Raise("IndexError", i + j)
    ELSE LET l == strip(At(logf_, i + j))
         IN  IF ~re_increments(l) THEN [kind |-> "ok", j |-> j, table |-> jd]
             ELSE IF \E f \in 1..3 : ~CanFloat(l.inc[f])
                  THEN Raise("ValueError", i + j)
                  ELSE coulometer(logf_, i, j + 1, Append(jd, l.inc))

\* totalcounts read from the increments column
totalcounts_increments(table) == table[Len(table)][3]

\* line 84
totalcounts(table) == table[Len(table)][2]

\* line 85
runtime(j) == j - 4

\* lines 55-85 for the run-start line at i: the row appended, or the exception
run(logf_, i) ==
    LET line == At(logf_, i)
    IN  IF re_datetime(line) = << >> THEN Raise("IndexError", i)
        ELSE IF i + 1 >= Len(logf_) THEN Raise("IndexError", i + 1)
        ELSE IF ~lbot(logf_, i).isstr THEN Raise("AssertionError", i + 1)
        ELSE LET c == coulometer(logf_, i, 4, jdict0)
             IN  IF c.kind = "error" THEN c
                 ELSE [kind |-> "ok",
                       row |-> [logfileline |-> i,
                                analysisdate |-> re_datetime(line)[1],
                                bottle |-> lbot(logf_, i).val,
                                table |-> c.table,
                                totalcounts |-> totalcounts(c.table),
                                runtime |-> runtime(c.j),
                                method |-> Method]]

\* the for loop resumed after the increment lines a run consumed
RECURSIVE parse_resume(_, _, _)
parse_resume(logf_, i, rows) ==
    IF i >= Len(logf_) THEN [kind |-> "ok", rows |-> rows]
    ELSE IF ~re_method(At(logf_, i)) THEN parse_resume(logf_, i + 1, rows)
    ELSE LET r == run(logf_, i)
         IN  IF r.kind = "error" THEN r
             ELSE parse_resume(logf_, i + 4 + r.row.runtime, Append(rows, r.row))

\* the for loop of lines 53-85 from line i with the rows so far
RECURSIVE parse(_, _, _)
parse(logf_, i, rows) ==
    IF i >= Len(logf_) THEN [kind |-> "ok", rows |-> rows]
    ELSE IF ~re_method(At(logf_, i)) THEN parse(logf_, i + 1, rows)
    ELSE LET r == run(logf_, i)
         IN  IF r.kind = "error" THEN r
             ELSE parse(logf_, i + 1, Append(rows, r.row))

read_logfile(logf_) == parse(logf_, 0, << >>)

----------------------------------------------------------------------------
(* The instrument writes the logfile a line at a time.  A name line is     *)
(* written after a run-start line and an increment line where a run's      *)
(* table can take it: anywhere else read_logfile cannot tell either from   *)
(* a text line, which stands for them there.  Nothing is written after a   *)
(* line at which read_logfile raises whatever follows it: read_logfile     *)
(* reads no line after that one.                                           *)

IsStart(l) == l.k = "start"

NStarts(f) == Cardinality({p \in 1..Len(f) : IsStart(f[p])})

\* a run-start line whose increment lines reach the end of f
TakesIncrement(f) ==
    \E p \in 1..Len(f) :
        /\ IsStart(f[p])
        /\ p + 4 <= Len(f) + 1
        /\ \A q \in (p + 4)..Len(f) : f[q].k = "inc"

Writable(f) ==
    {TextLine}
    \cup (IF NStarts(f) < MaxRuns THEN StartLines ELSE {})
    \cup (IF Len(f) > 0 /\ IsStart(f[Len(f)]) THEN NameLines ELSE {})
    \cup (IF TakesIncrement(f) THEN IncLines ELSE {})

\* read_logfile raises on f at a line f holds (not for want of a line)
RaisesWithin(f) ==
    LET r == read_logfile(f) IN r.kind = "error" /\ r.at < Len(f)

WriteLine ==
    /\ logdf = NotRun
    /\ Len(logf) < MaxLines
    /\ ~RaisesWithin(logf)
    /\ \E l \in Writable(logf) : logf' = Append(logf, l)
    /\ UNCHANGED <<logdf, dbsvars, licorvars>>

ReadLogfile ==
    /\ logdf = NotRun
    /\ logdf' = read_logfile(logf)
    /\ UNCHANGED <<logf, dbsvars, licorvars>>

Next == WriteLine \/ ReadLogfile

Spec == Init /\ [][Next]_vars

----------------------------------------------------------------------------
(* Numbers.  A number is an int or a float; a float is the fraction        *)
(* num/den, or nan.  A column that holds a nan holds floats only.          *)

PyInt(k) == [t |-> "int", num |-> k, den |-> 1]
PyFloat(n, d) == [t |-> "float", num |-> n, den |-> d]
NaN == [t |-> "nan", num |-> 0, den |-> 0]

\* the dtype pandas gives a column of ints and nans: float64
AsColumn(col) ==
    IF \E r \in 1..Len(col) : col[r].t = "nan"
    THEN [r \in 1..Len(col) |->
             IF col[r].t = "int" THEN PyFloat(col[r].num, 1) ELSE col[r]]
    ELSE col

RECURSIVE Sum(_)
Sum(s) == IF s = << >> THEN 0 ELSE s[1] + Sum(Tail(s))

\* np.mean: nan (and a warning) for no value
mean(s) == IF s = << >> THEN NaN ELSE PyFloat(Sum(s), Len(s))

\* df.apply(func, axis=1) from row r (0-based) on, with the values so far:
\* the column of values, or the first exception a row raises
RECURSIVE Apply(_, _, _)
Apply(results, r, col) ==
    IF r >= Len(results) THEN [kind |-> "ok", col |-> AsColumn(col)]
    ELSE IF At(results, r).kind = "error" THEN At(results, r)
    ELSE Apply(results, r + 1, Append(col, At(results, r).val))

Value(v) == [kind |-> "ok", val |-> v]

----------------------------------------------------------------------------
(* logfile2dbs *)

\* np.where((x.bottle == logfile.bottle) & (x.analysisdate == logfile.analysisdate))[0]
where_match(x, logfile_) ==
    SelectSeq([p \in 1..Len(logfile_) |-> p - 1],
              LAMBDA p : /\ At(logfile_, p).bottle = x.bottle
                         /\ At(logfile_, p).analysisdate = x.analysisdate)

\* x.bottle in logfile.bottle.values
bottle_in(x, logfile_) == \E p \in 1..Len(logfile_) : logfile_[p].bottle = x.bottle

\* _logfile2dbs without the assertion: the first match, whatever their number
_logfile2dbs_first(x, name, logfile_) ==
    IF bottle_in(x, logfile_)
    THEN LET xix == where_match(x, logfile_)
         IN  IF Len(xix) = 0 THEN Raise("IndexError", name) ELSE Value(PyInt(xix[1]))
    ELSE Value(NaN)

\* _logfile2dbs with the assertion made of every row
_logfile2dbs_strict(x, name, logfile_) ==
    LET xix == where_match(x, logfile_)
    IN  IF Len(xix) # 1 THEN Raise("AssertionError", name) ELSE Value(PyInt(xix[1]))

\* lines 90-100 for the row x of index label name
_logfile2dbs(x, name, logfile_) ==
    IF bottle_in(x, logfile_)
    THEN LET xix == where_match(x, logfile_)
         IN  IF Len(xix) # 1 THEN Raise("AssertionError", name) ELSE Value(PyInt(xix[1]))
    ELSE Value(NaN)

\* lines 102-105: the logfile_iloc column added to dbs
logfile2dbs(dbs_, logfile_) ==
    Apply([r \in 1..Len(dbs_) |-> _logfile2dbs(dbs_[r], r - 1, logfile_)], 0, << >>)

----------------------------------------------------------------------------
(* get_blanks *)

\* lft['increments'][lft['minutes'] >= usefrom]
late_increments(table, usefrom_) ==
    LET late == SelectSeq(table, LAMBDA row : row[1] >= usefrom_)
    IN  [q \in 1..Len(late) |-> late[q][3]]

\* lines 107-114 for the row of index label name whose logfile_iloc is iloc
\* (NotRun: the row has no such column)
_get_blanks(iloc, name, logfile_, usefrom_) ==
    IF iloc = NotRun THEN Raise("AssertionError", name)
    ELSE IF ~(usefrom_ > 0) THEN Raise("AssertionError", name)
    ELSE IF iloc.val.t # "int" THEN Raise("TypeError", name)
    ELSE IF iloc.val.num >= Len(logfile_) THEN Raise("IndexError", name)
    ELSE Value(mean(late_increments(At(logfile_, iloc.val.num).table, usefrom_)))

\* lines 116-119: the blank_here column added to dbs, whose logfile_iloc column
\* is iloc_.col when logfile2dbs gave one
get_blanks(dbs_, iloc_, logfile_, usefrom_) ==
    Apply([r \in 1..Len(dbs_) |->
              _get_blanks(IF iloc_.kind = "ok" THEN Value(iloc_.col[r]) ELSE NotRun,
                          r - 1, logfile_, usefrom_)],
          0, << >>)

----------------------------------------------------------------------------
(* The dbs and logfile tables handed to logfile2dbs and get_blanks: rows   *)
(* of read_dbs, runs of read_logfile (every table begins with the seeded   *)
(* triple).                                                                *)

Bottles == {STD1, BATCH9}
Dates == {1, 2}

\* minutes 0, 2, .., 10 with increments 0, 1, .., 5
Table6 == [q \in 1..6 |-> <<2 * (q - 1), 10 * (q - 1), q - 1>>]

Tables == {jdict0, Table6, << <<0, 0, 0>>, <<8, 4, 4>>, <<3, 9, 5>>, <<6, 11, 2>> >>}

Usefroms == {0, 4, usefrom_default, 7}

AddDbsRow ==
    /\ dbs_iloc = NotRun /\ blanks = NotRun
    /\ Len(dbs) < MaxDbs
    /\ \E b \in Bottles, d \in Dates :
          dbs' = Append(dbs, [bottle |-> b, analysisdate |-> d])
    /\ UNCHANGED <<logfile, dbs_iloc, blanks, usefrom, logvars, licorvars>>

AddRun ==
    /\ dbs_iloc = NotRun /\ blanks = NotRun
    /\ Len(logfile) < MaxLog
    /\ \E b \in Bottles, d \in Dates, t \in Tables :
          logfile' = Append(logfile, [bottle |-> b, analysisdate |-> d, table |-> t])
    /\ UNCHANGED <<dbs, dbs_iloc, blanks, usefrom, logvars, licorvars>>

Logfile2dbs ==
    /\ dbs_iloc = NotRun /\ blanks = NotRun
    /\ dbs_iloc' = logfile2dbs(dbs, logfile)
    /\ UNCHANGED <<dbs, logfile, blanks, usefrom, logvars, licorvars>>

GetBlanks ==
    /\ blanks = NotRun
    /\ \E u \in Usefroms :
          /\ usefrom' = u
          /\ blanks' = get_blanks(dbs, dbs_iloc, logfile, u)
    /\ UNCHANGED <<dbs, logfile, dbs_iloc, logvars, licorvars>>

NextDbs == AddDbsRow \/ AddRun \/ Logfile2dbs \/ GetBlanks

SpecDbs == Init /\ [][NextDbs]_vars

----------------------------------------------------------------------------
(* get_licor_samples.  A table is its datenum column; the index of dbs is  *)
(* the RangeIndex read_dbs gives it, a row's label its 0-based position.   *)

\* line 101 with > for >=
tag_after(tags, licor_, datenum, dbs_ix) ==
    [p \in 1..Len(licor_) |-> IF licor_[p] > datenum THEN PyFloat(dbs_ix, 1) ELSE tags[p]]

\* line 101: licor.loc[licor.datenum >= dbs.loc[dbs_ix].datenum, "dbs_ix"] = dbs_ix
tag(tags, licor_, datenum, dbs_ix) ==
    [p \in 1..Len(licor_) |-> IF licor_[p] >= datenum THEN PyFloat(dbs_ix, 1) ELSE tags[p]]

\* the loop of lines 100-101 from dbs_ix on
RECURSIVE tag_all(_, _, _, _)
tag_all(tags, licor_, dbs_, dbs_ix) ==
    IF dbs_ix >= Len(dbs_) THEN tags
    ELSE tag_all(tag(tags, licor_, At(dbs_, dbs_ix), dbs_ix), licor_, dbs_, dbs_ix + 1)

\* lines 99-103: the rows kept, each (its position in licor, its datenum, its dbs_ix)
get_licor_samples(licor_, dbs_) ==
    LET tags == tag_all([p \in 1..Len(licor_) |-> NaN], licor_, dbs_, 0)
        rows == [p \in 1..Len(licor_) |->
                    [iloc |-> p - 1, datenum |-> licor_[p], dbs_ix |-> tags[p]]]
    IN  [kind |-> "ok", rows |-> SelectSeq(rows, LAMBDA row : row.dbs_ix.t # "nan")]

Datenums == 0..MaxLicor

AddLicorRow ==
    /\ samples = NotRun
    /\ Len(licor) < MaxLicor
    /\ \E d \in Datenums : licor' = Append(licor, d)
    /\ UNCHANGED <<dbs_datenum, samples, logvars, dbsvars>>

AddDbsDatenum ==
    /\ samples = NotRun
    /\ Len(dbs_datenum) < MaxLicor
    /\ \E d \in Datenums : dbs_datenum' = Append(dbs_datenum, d)
    /\ UNCHANGED <<licor, samples, logvars, dbsvars>>

GetLicorSamples ==
    /\ samples = NotRun
    /\ samples' = get_licor_samples(licor, dbs_datenum)
    /\ UNCHANGED <<licor, dbs_datenum, logvars, dbsvars>>

NextLicor == AddLicorRow \/ AddDbsDatenum \/ GetLicorSamples

SpecLicor == Init /\ [][NextLicor]_vars

----------------------------------------------------------------------------
(* Properties of logfile2dbs and get_blanks. *)

\* the 0-based positions of the runs whose bottle and date are those of dbs row r
Matches(r) ==
    {p \in 0..(Len(logfile) - 1) :
        /\ At(logfile, p).bottle = dbs[r].bottle
        /\ At(logfile, p).analysisdate = dbs[r].analysisdate}

\* the bottle of dbs row r is the bottle of some run
Present(r) == \E p \in 1..Len(logfile) : logfile[p].bottle = dbs[r].bottle

\* dbs row r names a bottle of the logfile and has not exactly one matching run
Offending(r) == Present(r) /\ Cardinality(Matches(r)) # 1

Matched == dbs_iloc.kind = "ok"

\* C6: when some row names a bottle of the logfile without exactly one run of
\* its bottle and date, logfile2dbs raises the assertion that names the first
\* such row and returns no table; otherwise every row that names a bottle of
\* the logfile is given the position of its one matching run.
C6_ExactlyOneMatch ==
    dbs_iloc # NotRun =>
        IF \E r \in 1..Len(dbs) : Offending(r)
        THEN \E r \in 1..Len(dbs) :
                /\ Offending(r)
                /\ \A q \in 1..(r - 1) : ~Offending(q)
                /\ dbs_iloc = Raise("AssertionError", r - 1)
        ELSE /\ Matched
             /\ \A r \in 1..Len(dbs) :
                   Present(r) => /\ dbs_iloc.col[r].t # "nan"
                                 /\ dbs_iloc.col[r].den = 1
                                 /\ Matches(r) = {dbs_iloc.col[r].num}

\* the second row's bottle and date are those of two runs, and the assertion
\* names that row
C6_Witness ==
    /\ dbs_iloc = Raise("AssertionError", 1)
    /\ Len(dbs) = 2
    /\ ~Offending(1)
    /\ Cardinality(Matches(2)) = 2

\* C7: a row whose bottle no run has never makes logfile2dbs raise, and in the
\* table logfile2dbs returns the rows given "no match" (nan) are exactly the
\* rows whose bottle no run has.
C7_NoMatchIffAbsent ==
    /\ dbs_iloc.kind = "error" => Present(dbs_iloc.at + 1)
    /\ Matched => \A r \in 1..Len(dbs) : (dbs_iloc.col[r].t = "nan") <=> ~Present(r)
    /\ (dbs_iloc # NotRun /\ \A r \in 1..Len(dbs) : ~Present(r)) => Matched

\* a returned table with a row of an absent bottle beside a matched row, the
\* logfile holding a run
C7_Witness ==
    /\ Matched
    /\ \E r, q \in 1..Len(dbs) : ~Present(r) /\ Present(q)

BlanksCalled == blanks # NotRun /\ Matched /\ usefrom > 0

\* C2: get_blanks, called after logfile2dbs with a cutoff > 0, returns a
\* table in which every "no match" row has a missing blank.
C2_NoMatchGivesMissingBlank ==
    BlanksCalled =>
        /\ blanks.kind = "ok"
        /\ \A r \in 1..Len(dbs) : ~Present(r) => blanks.col[r].t = "nan"

\* the increments of the rows of table whose minutes are at least the cutoff
LateRows(table) == {q \in 1..Len(table) : table[q][1] >= usefrom}

RECURSIVE SumOver(_, _)
SumOver(table, rows) ==
    IF rows = {} THEN 0
    ELSE LET q == CHOOSE q \in rows : TRUE
         IN  table[q][3] + SumOver(table, rows \ {q})

\* blank is the mean of the late increments of table (when there is one)
IsLateMean(blank, table) ==
    LateRows(table) # {} =>
        /\ blank.t = "float"
        /\ blank.num * Cardinality(LateRows(table))
               = SumOver(table, LateRows(table)) * blank.den

\* C10: get_blanks, called after logfile2dbs with a cutoff > 0, returns for
\* every row with an association the mean of the increments of the rows of
\* the associated table whose minutes are at least the cutoff.
C10_BlankIsLateMean ==
    BlanksCalled =>
        \A r \in 1..Len(dbs) :
            Present(r) =>
                /\ blanks.kind = "ok"
                /\ IsLateMean(blanks.col[r],
                              At(logfile, dbs_iloc.col[r].num).table)

\* C10 where it holds: when every row of dbs has an association, the blank of
\* every row is that mean; minutes 0, 2, .., 10 with increments 0, .., 5 and
\* cutoff 6 give 4.
BlankIsLateMeanWhenAllMatched ==
    (BlanksCalled /\ \A r \in 1..Len(dbs) : Present(r)) =>
        /\ blanks.kind = "ok"
        /\ \A r \in 1..Len(dbs) :
              LET table == At(logfile, dbs_iloc.col[r].num).table
              IN  /\ IsLateMean(blanks.col[r], table)
                  /\ (table = Table6 /\ usefrom = 6) =>
                        blanks.col[r].num = 4 * blanks.col[r].den

----------------------------------------------------------------------------
(* Properties of get_licor_samples. *)

Ascending(s) == \A p \in 1..(Len(s) - 1) : s[p] <= s[p + 1]

\* the positions (0-based) of the LI-COR rows at or after the first dbs datenum
AtOrAfterFirst == {p \in 0..(Len(licor) - 1) : At(licor, p) >= dbs_datenum[1]}

\* the labels of the dbs rows whose datenum is at most d
Reached(d) == {k \in 0..(Len(dbs_datenum) - 1) : At(dbs_datenum, k) <= d}

Max(S) == CHOOSE k \in S : \A h \in S : h <= k

\* C9: for tables sorted ascending by datenum, the rows returned are the
\* LI-COR rows at or after the first dbs datenum, in their order, none other,
\* and each is tagged with the label of the last dbs row whose datenum is at
\* most the row's.
C9_TaggedWithLastReached ==
    (/\ samples # NotRun
     /\ Len(dbs_datenum) > 0
     /\ Ascending(licor) /\ Ascending(dbs_datenum)) =>
        /\ {samples.rows[q].iloc : q \in 1..Len(samples.rows)} = AtOrAfterFirst
        /\ Len(samples.rows) = Cardinality(AtOrAfterFirst)
        /\ \A q \in 2..Len(samples.rows) :
              samples.rows[q - 1].iloc < samples.rows[q].iloc
        /\ \A q \in 1..Len(samples.rows) :
              LET row == samples.rows[q]
              IN  /\ row.datenum = At(licor, row.iloc)
                  /\ row.dbs_ix.den = 1
                  /\ row.dbs_ix.num = Max(Reached(row.datenum))

\* sorted tables: a row before the first dbs datenum is dropped, and a row
\* whose datenum two dbs rows share is kept with the label of the later one
C9_Witness ==
    /\ samples # NotRun
    /\ Ascending(licor) /\ Ascending(dbs_datenum)
    /\ Len(dbs_datenum) = 3
    /\ dbs_datenum[2] = dbs_datenum[3] /\ dbs_datenum[1] < dbs_datenum[2]
    /\ Len(licor) = 3
    /\ licor[1] < dbs_datenum[1]
    /\ licor[2] = dbs_datenum[1]
    /\ licor[3] = dbs_datenum[3]
    /\ Len(samples.rows) = 2
    /\ samples.rows[1].dbs_ix = PyFloat(0, 1)
    /\ samples.rows[2].dbs_ix = PyFloat(2, 1)

----------------------------------------------------------------------------
(* Properties of read_logfile. *)

Returned == logdf.kind = "ok"

\* the 0-based indices of the run-start lines of the file
RunStarts == {i \in 0..(Len(logf) - 1) : IsStart(At(logf, i))}

\* the forms of a name line, read off the line
IsNameForm(l) == ~l.pad /\ l.k \in {"bottle", "tab", "crm", "other"}

NameOf(l, i) == IF l.k = "other" THEN <<"other_", i + 1>> ELSE l.name

HasName(i) == i + 1 < Len(logf) /\ IsNameForm(At(logf, i + 1))

\* the increment lines that follow line i + 3 without a gap
RECURSIVE IncrementsFrom(_)
IncrementsFrom(p) ==
    IF p < Len(logf) /\ At(logf, p).k = "inc" THEN 1 + IncrementsFrom(p + 1) ELSE 0

\* C1 as stated: the total counts of every returned run are the increments
\* value of the last row of its table.
C1_TotalIsLastIncrement ==
    Returned =>
        \A k \in 1..Len(logdf.rows) :
            LET r == logdf.rows[k]
            IN  r.totalcounts = r.table[Len(r.table)][3]

\* C1 as amended: the total counts of every returned run are the counts field
\* of the last increment line the run consumed (0 when it consumed none).
C1_TotalIsLastCounts ==
    Returned =>
        \A k \in 1..Len(logdf.rows) :
            LET r == logdf.rows[k]
                n == IncrementsFrom(r.logfileline + 4)
            IN  r.totalcounts =
                    IF n = 0 THEN 0 ELSE At(logf, r.logfileline + 3 + n).inc[2]

\* a returned run of two increment lines whose last counts and increments differ
C1_Witness ==
    /\ Returned
    /\ \E k \in 1..Len(logdf.rows) :
          LET r == logdf.rows[k]
          IN  /\ Len(r.table) = 3
              /\ r.table[3][2] # r.table[3][3]
              /\ r.table[2][2] # r.table[3][2]

\* C3: every returned run has a non-empty sample identifier.
C3_BottleNonEmpty ==
    Returned => \A k \in 1..Len(logdf.rows) : logdf.rows[k].bottle # << >>

\* the run-start line at h heads a run that read_logfile parses: it has a
\* date and a name line, and its increment lines have their digits and end
\* at a line of the file
RunParses(h) ==
    LET n == IncrementsFrom(h + 4)
    IN  /\ At(logf, h).ts # NoDate
        /\ HasName(h)
        /\ h + 4 + n < Len(logf)
        /\ \A q \in (h + 4)..(h + 3 + n) : \A f \in 1..3 : At(logf, q).inc[f] # Empty

\* C4: every returned run's identifier is the one its name line gives (the
\* captured name of the bottle or CRM form, other_<i+1> for 'other'), and a
\* run-start line i followed by a line of none of the three forms, after any
\* number of runs that parse, makes read_logfile raise the assertion that
\* names line i + 1 and return no run.
C4_NameOrFatal ==
    /\ Returned =>
          \A k \in 1..Len(logdf.rows) :
              LET i == logdf.rows[k].logfileline
              IN  HasName(i) /\ logdf.rows[k].bottle = NameOf(At(logf, i + 1), i)
    /\ logdf # NotRun =>
          \A i \in RunStarts :
              (/\ At(logf, i).ts # NoDate
               /\ i + 1 < Len(logf)
               /\ ~HasName(i)
               /\ \A h \in RunStarts : h < i => RunParses(h))
              => logdf = Raise("AssertionError", i + 1)

\* a run that parses, then a run-start line followed by a line of no form
C4_Witness ==
    /\ logdf = Raise("AssertionError", Len(logf) - 1)
    /\ \E h \in RunStarts : h + 1 < Len(logf) - 1 /\ At(logf, h + 1).k = "other"
                            /\ HasName(h)

\* the files in which no line makes read_logfile raise by its own rules: every
\* run-start line has a date and a name line that gives a non-empty name,
\* every increment line its digits
WellFormed ==
    /\ \A i \in RunStarts :
          /\ At(logf, i).ts # NoDate
          /\ HasName(i)
          /\ NameOf(At(logf, i + 1), i) # << >>
    /\ \A p \in 1..Len(logf) :
          logf[p].k = "inc" => \A f \in 1..3 : logf[p].inc[f] # Empty

\* C5: in such a file every run-start line yields a run whose table begins
\* with (0, 0, 0), and a run-start line that no increment line follows at
\* offset 4 (another line is there, or the file ends before it) yields the
\* table of that one triple and run duration 0.
C5_SeededAtFileEnd ==
    (logdf # NotRun /\ WellFormed) =>
        /\ Returned
        /\ \A i \in RunStarts :
              \E k \in 1..Len(logdf.rows) :
                  LET r == logdf.rows[k]
                  IN  /\ r.logfileline = i
                      /\ r.table[1] = <<0, 0, 0>>
                      /\ IncrementsFrom(i + 4) = 0 =>
                            (r.table = << <<0, 0, 0>> >> /\ r.runtime = 0)

\* C8: the returned runs are the run-start lines of the file, one for one and
\* in file order.
C8_OneRunPerStart ==
    Returned =>
        /\ Len(logdf.rows) = Cardinality(RunStarts)
        /\ \A k \in 1..Len(logdf.rows) : logdf.rows[k].logfileline \in RunStarts
        /\ \A k \in 2..Len(logdf.rows) :
              logdf.rows[k - 1].logfileline < logdf.rows[k].logfileline

\* two returned runs, the second starting on the line that ends the increment
\* lines the first run consumed
C8_Witness ==
    /\ Returned
    /\ Len(logdf.rows) = 2
    /\ logdf.rows[1].runtime > 0
    /\ logdf.rows[2].logfileline = logdf.rows[1].logfileline + 4 + logdf.rows[1].runtime

=============================================================================
